---- MODULE Spec2Model ----
(***************************************************************************)
(* MySQLErrorInspector.InspectError (src/go/error_inspector.go).           *)
(*                                                                         *)
(* One call of InspectError is a small sequential program over its locals  *)
(* (err, defaultStatus, mysqlErr, info).  Each caller owns one copy of     *)
(* the locals; the receiver MySQLErrorInspector is an empty struct, so     *)
(* there is no state outside the locals.  The program counter pc[p] names  *)
(* the source line the caller p is about to execute.                       *)
(*                                                                         *)
(* An error value is the chain obtained by following Unwrap, outermost     *)
(* first; the nil error is the empty chain.  A link is a generic error, a  *)
(* *mysql.MySQLError, or a nil *mysql.MySQLError stored in the interface.  *)
(* mysql.MySQLError carries Number (uint16) and SQLState ([5]byte); a byte *)
(* is written as a one-character string, the zero byte as "NUL".           *)
(***************************************************************************)
EXTENDS Integers, Sequences, FiniteSets, TLC

VARIABLES err, defaultStatus, mysqlErr, info, pc, result

vars == <<err, defaultStatus, mysqlErr, info, pc, result>>

(***************************************************************************)
(* Bounds of the model.                                                    *)
(***************************************************************************)
NumCallers == 2
MaxDepth == 3

Procs == 1..NumCallers

(***************************************************************************)
(* adbc.Status, the enumerated status type of the surrounding framework.   *)
(***************************************************************************)
Statuses ==
    {"OK", "Unknown", "NotImplemented", "NotFound", "AlreadyExists",
     "InvalidArgument", "InvalidState", "InvalidData", "Integrity",
     "Internal", "IO", "Cancelled", "Timeout", "Unauthenticated",
     "Unauthorized"}

(***************************************************************************)
(* Error values.                                                           *)
(***************************************************************************)
GenericErr == [kind |-> "generic"]
NilPtr == [kind |-> "nilptr"]
MySQLError(n, s) == [kind |-> "mysql", Number |-> n, SQLState |-> s]

\* The zero value of driverbase.ErrorInfo.
ZeroInfo == [Status |-> "OK", VendorCode |-> 0, SqlState |-> <<>>]

(***************************************************************************)
(* The operations of InspectError, as the code computes them.              *)
(***************************************************************************)

\* A composite literal that leaves Status at its zero value.
NewErrorInfoZero(d) == ZeroInfo

\* info := driverbase.ErrorInfo{Status: defaultStatus}
NewErrorInfo(d) == [Status |-> d, VendorCode |-> 0, SqlState |-> <<>>]

\* A type assertion on the outermost error only, with no unwrapping.
errorsAsNoUnwrap(e, target) ==
    IF e # <<>> /\ Head(e).kind \in {"mysql", "nilptr"}
    THEN [ok |-> TRUE, target |-> Head(e)]
    ELSE [ok |-> FALSE, target |-> target]

\* errors.As(err, &mysqlErr): the first link of the chain whose dynamic type
\* is *mysql.MySQLError is stored in the target, a nil pointer of that type
\* included; the nil error and a chain with no such link give false.
RECURSIVE errorsAs(_, _)
errorsAs(e, target) ==
    IF e = <<>> THEN [ok |-> FALSE, target |-> target]
    ELSE IF Head(e).kind \in {"mysql", "nilptr"}
         THEN [ok |-> TRUE, target |-> Head(e)]
         ELSE errorsAs(Tail(e), target)

\* A conversion to int16 instead of int32.
ToInt16(n) ==
    LET m == n % 65536 IN IF m >= 32768 THEN m - 65536 ELSE m

\* int32(mysqlErr.Number): a value up to the largest int32 is kept, a larger
\* one wraps around by 2^32.
ToInt32(n) ==
    IF n <= 2147483647 THEN n ELSE ((n - 2147483647) - 2147483647) - 2

\* string(mysqlErr.SQLState[:]): every byte of the array, in order.
ByteString(a) == [i \in 1..Len(a) |-> a[i]]

\* The vendor-code switch with ER_LOCK_DEADLOCK filed under the timeout case.
VendorCodeStatusSlip(n, cur) ==
    CASE n = 1045 -> "Unauthenticated"
      [] n \in {1044, 1142, 1143, 1227} -> "Unauthorized"
      [] n \in {1146, 1049} -> "NotFound"
      [] n \in {1050, 1007} -> "AlreadyExists"
      [] n \in {1062, 1451, 1452, 1048, 1364} -> "Integrity"
      [] n \in {1064, 1054, 1052} -> "InvalidArgument"
      [] n \in {1366, 1292, 1264} -> "InvalidData"
      [] n \in {1205, 1213} -> "Timeout"
      [] n \in {2002, 2003, 2006, 2013} -> "IO"
      [] n = 1105 -> "Internal"
      [] OTHER -> cur

\* switch mysqlErr.Number: the status after the switch, cur when no case fires.
VendorCodeStatus(n, cur) ==
    CASE n = 1045 -> "Unauthenticated"
      [] n \in {1044, 1142, 1143, 1227} -> "Unauthorized"
      [] n = 1146 -> "NotFound"
      [] n = 1049 -> "NotFound"
      [] n = 1050 -> "AlreadyExists"
      [] n = 1007 -> "AlreadyExists"
      [] n = 1062 -> "Integrity"
      [] n = 1451 -> "Integrity"
      [] n = 1452 -> "Integrity"
      [] n = 1048 -> "Integrity"
      [] n = 1364 -> "Integrity"
      [] n = 1064 -> "InvalidArgument"
      [] n = 1054 -> "InvalidArgument"
      [] n = 1052 -> "InvalidArgument"
      [] n = 1366 -> "InvalidData"
      [] n = 1292 -> "InvalidData"
      [] n = 1264 -> "InvalidData"
      [] n = 1205 -> "Timeout"
      [] n = 1213 -> "Cancelled"
      [] n \in {2002, 2003, 2006, 2013} -> "IO"
      [] n = 1105 -> "Internal"
      [] OTHER -> cur

\* The uint16 codes on which a case of the vendor-code switch fires.
VendorCodes ==
    {n \in 0..65535 : VendorCodeStatus(n, "OK") = VendorCodeStatus(n, "Unknown")}

PrefixLen == 2

\* len(info.SqlState) >= 2 && info.Status == defaultStatus
FallbackGuard(i, d) == Len(i.SqlState) >= PrefixLen /\ i.Status = d

\* The prefix switch with a catch-all branch for the general-error class.
SqlStatePrefixStatusCatchAll(s, cur) ==
    LET prefix == SubSeq(s, 1, PrefixLen) IN
    CASE prefix = <<"0", "2">> -> "NotFound"
      [] prefix \in {<<"0", "7">>, <<"0", "8">>} -> "IO"
      [] prefix \in {<<"2", "1">>, <<"2", "2">>} -> "InvalidData"
      [] prefix = <<"2", "3">> -> "Integrity"
      [] prefix = <<"2", "8">> -> "Unauthenticated"
      [] prefix \in {<<"3", "4">>, <<"4", "2">>} -> "InvalidArgument"
      [] prefix = <<"4", "4">> -> "Integrity"
      [] prefix \in {<<"5", "5">>, <<"5", "7">>} -> "InvalidState"
      [] prefix = <<"5", "8">> -> "Internal"
      [] prefix = <<"H", "Y">> -> "Unknown"
      [] OTHER -> cur

\* The prefix switch with the WITH CHECK OPTION class left out.
SqlStatePrefixStatusSlip(s, cur) ==
    LET prefix == SubSeq(s, 1, PrefixLen) IN
    CASE prefix = <<"0", "2">> -> "NotFound"
      [] prefix \in {<<"0", "7">>, <<"0", "8">>} -> "IO"
      [] prefix \in {<<"2", "1">>, <<"2", "2">>} -> "InvalidData"
      [] prefix = <<"2", "3">> -> "Integrity"
      [] prefix = <<"2", "8">> -> "Unauthenticated"
      [] prefix \in {<<"3", "4">>, <<"4", "2">>} -> "InvalidArgument"
      [] prefix \in {<<"5", "5">>, <<"5", "7">>} -> "InvalidState"
      [] prefix = <<"5", "8">> -> "Internal"
      [] OTHER -> cur

\* switch info.SqlState[:2]: the status after the switch, cur when no case fires.
SqlStatePrefixStatus(s, cur) ==
    LET prefix == SubSeq(s, 1, PrefixLen) IN
    CASE prefix = <<"0", "2">> -> "NotFound"
      [] prefix = <<"0", "7">> -> "IO"
      [] prefix = <<"0", "8">> -> "IO"
      [] prefix \in {<<"2", "1">>, <<"2", "2">>} -> "InvalidData"
      [] prefix = <<"2", "3">> -> "Integrity"
      [] prefix = <<"2", "8">> -> "Unauthenticated"
      [] prefix = <<"3", "4">> -> "InvalidArgument"
      [] prefix = <<"4", "2">> -> "InvalidArgument"
      [] prefix = <<"4", "4">> -> "Integrity"
      [] prefix \in {<<"5", "5">>, <<"5", "7">>} -> "InvalidState"
      [] prefix = <<"5", "8">> -> "Internal"
      [] OTHER -> cur

(***************************************************************************)
(* The steps of one call by caller p.                                      *)
(***************************************************************************)

\* line 30
NewInfo(p) ==
    /\ pc[p] = "init"
    /\ info' = [info EXCEPT ![p] = NewErrorInfo(defaultStatus[p])]
    /\ pc' = [pc EXCEPT ![p] = "as"]
    /\ UNCHANGED <<err, defaultStatus, mysqlErr, result>>

\* lines 32-33
As(p) ==
    /\ pc[p] = "as"
    /\ LET r == errorsAs(err[p], mysqlErr[p]) IN
         /\ mysqlErr' = [mysqlErr EXCEPT ![p] = r.target]
         /\ pc' = [pc EXCEPT ![p] = IF r.ok THEN "extract" ELSE "return"]
    /\ UNCHANGED <<err, defaultStatus, info, result>>

\* lines 34-35; reading a field through a nil pointer panics.
Extract(p) ==
    /\ pc[p] = "extract"
    /\ IF mysqlErr[p].kind = "nilptr"
       THEN /\ pc' = [pc EXCEPT ![p] = "panic"]
            /\ UNCHANGED info
       ELSE /\ info' = [info EXCEPT ![p] =
                          [@ EXCEPT !.VendorCode = ToInt32(mysqlErr[p].Number),
                                    !.SqlState = ByteString(mysqlErr[p].SQLState)]]
            /\ pc' = [pc EXCEPT ![p] = "switch"]
    /\ UNCHANGED <<err, defaultStatus, mysqlErr, result>>

\* The vendor-code switch writing an info that every call shares.
SwitchCodeShared(p) ==
    /\ pc[p] = "switch"
    /\ info' = [q \in Procs |->
                  [info[q] EXCEPT !.Status =
                      VendorCodeStatus(mysqlErr[p].Number, info[p].Status)]]
    /\ pc' = [pc EXCEPT ![p] = "guard"]
    /\ UNCHANGED <<err, defaultStatus, mysqlErr, result>>

\* lines 37-80
SwitchCode(p) ==
    /\ pc[p] = "switch"
    /\ info' = [info EXCEPT ![p].Status =
                  VendorCodeStatus(mysqlErr[p].Number, info[p].Status)]
    /\ pc' = [pc EXCEPT ![p] = "guard"]
    /\ UNCHANGED <<err, defaultStatus, mysqlErr, result>>

\* line 83
Guard(p) ==
    /\ pc[p] = "guard"
    /\ pc' = [pc EXCEPT ![p] =
                IF FallbackGuard(info[p], defaultStatus[p]) THEN "prefix" ELSE "return"]
    /\ UNCHANGED <<err, defaultStatus, mysqlErr, info, result>>

\* lines 84-107
SwitchPrefix(p) ==
    /\ pc[p] = "prefix"
    /\ info' = [info EXCEPT ![p].Status =
                  SqlStatePrefixStatus(info[p].SqlState, info[p].Status)]
    /\ pc' = [pc EXCEPT ![p] = "return"]
    /\ UNCHANGED <<err, defaultStatus, mysqlErr, result>>

\* line 111: the caller receives a copy of info.
Return(p) ==
    /\ pc[p] = "return"
    /\ result' = [result EXCEPT ![p] = <<info[p]>>]
    /\ pc' = [pc EXCEPT ![p] = "done"]
    /\ UNCHANGED <<err, defaultStatus, mysqlErr, info>>

Step(p) ==
    \/ NewInfo(p)
    \/ As(p)
    \/ Extract(p)
    \/ SwitchCode(p)
    \/ Guard(p)
    \/ SwitchPrefix(p)
    \/ Return(p)

Next == \E p \in Procs : Step(p)

\* InspectError run alone from entry to exit: <<info>> on return, << >> on panic.
InspectError(e, d) ==
    LET i0 == NewErrorInfo(d)
        r == errorsAs(e, NilPtr)
    IN  IF ~r.ok THEN <<i0>>
        ELSE IF r.target.kind = "nilptr" THEN <<>>
        ELSE LET i1 == [i0 EXCEPT !.VendorCode = ToInt32(r.target.Number),
                                  !.SqlState = ByteString(r.target.SQLState)]
                 i2 == [i1 EXCEPT !.Status = VendorCodeStatus(r.target.Number, i1.Status)]
                 i3 == IF FallbackGuard(i2, d)
                       THEN [i2 EXCEPT !.Status = SqlStatePrefixStatus(i2.SqlState, i2.Status)]
                       ELSE i2
             IN  <<i3>>

(***************************************************************************)
(* Inputs.  The callers in `active` each make one call; the others make    *)
(* none.  A call starts at line 30 with its locals at their zero values.   *)
(***************************************************************************)
InitCalls(active, Errs, Defs) ==
    \E e \in [active -> Errs], d \in [active -> Defs] :
        /\ err = [p \in Procs |-> IF p \in active THEN e[p] ELSE <<>>]
        /\ defaultStatus = [p \in Procs |-> IF p \in active THEN d[p] ELSE "OK"]
        /\ mysqlErr = [p \in Procs |-> NilPtr]
        /\ info = [p \in Procs |-> ZeroInfo]
        /\ pc = [p \in Procs |-> IF p \in active THEN "init" ELSE "none"]
        /\ result = [p \in Procs |-> <<>>]

\* The codes of the vendor-code table of the specification, row by row.
DocVendorCategory(n) ==
    CASE n \in {1045} -> "Unauthenticated"
      [] n \in {1044, 1142, 1143, 1227} -> "Unauthorized"
      [] n \in {1146, 1049} -> "NotFound"
      [] n \in {1050, 1007} -> "AlreadyExists"
      [] n \in {1062, 1451, 1452, 1048, 1364} -> "Integrity"
      [] n \in {1064, 1054, 1052} -> "InvalidArgument"
      [] n \in {1366, 1292, 1264} -> "InvalidData"
      [] n \in {1205} -> "Timeout"
      [] n \in {1213} -> "Cancelled"
      [] n \in {2002, 2003, 2006, 2013} -> "IO"
      [] n \in {1105} -> "Internal"

DocVendorCodes ==
    {1045, 1044, 1142, 1143, 1227, 1146, 1049, 1050, 1007, 1062, 1451, 1452,
     1048, 1364, 1064, 1054, 1052, 1366, 1292, 1264, 1205, 1213, 2002, 2003,
     2006, 2013, 1105}

\* The SQLSTATE-prefix fallback table of the specification, row by row.
DocPrefixCategory(x) ==
    CASE x \in {<<"0", "2">>} -> "NotFound"
      [] x \in {<<"0", "7">>, <<"0", "8">>} -> "IO"
      [] x \in {<<"2", "1">>, <<"2", "2">>} -> "InvalidData"
      [] x \in {<<"2", "3">>} -> "Integrity"
      [] x \in {<<"2", "8">>} -> "Unauthenticated"
      [] x \in {<<"3", "4">>, <<"4", "2">>} -> "InvalidArgument"
      [] x \in {<<"4", "4">>} -> "Integrity"
      [] x \in {<<"5", "5">>, <<"5", "7">>} -> "InvalidState"
      [] x \in {<<"5", "8">>} -> "Internal"

DocPrefixes ==
    {<<"0", "2">>, <<"0", "7">>, <<"0", "8">>, <<"2", "1">>, <<"2", "2">>,
     <<"2", "3">>, <<"2", "8">>, <<"3", "4">>, <<"4", "2">>, <<"4", "4">>,
     <<"5", "5">>, <<"5", "7">>, <<"5", "8">>}

\* Codes outside the table: the ends of uint16, neighbours of table codes.
OtherCodes == {0, 1046, 1104, 1214, 9999, 65535}

OtherPrefixes ==
    {<<"0", "0">>, <<"0", "1">>, <<"2", "0">>, <<"3", "2">>, <<"8", "5">>,
     <<"9", "9">>, <<"H", "Y">>}

SqlStates ==
    {p \o <<"0", "0", "0">> : p \in DocPrefixes \cup OtherPrefixes}
        \cup {<<"4", "2", "S", "0", "2">>, <<"0", "8", "S", "0", "1">>,
              <<"4", "0", "0", "0", "1">>,
              <<"NUL", "NUL", "NUL", "NUL", "NUL">>}

\* Every error that is nil or a single link.
TableErrs ==
    {<<>>, <<GenericErr>>, <<NilPtr>>}
        \cup {<<MySQLError(n, s)>> : n \in DocVendorCodes \cup OtherCodes, s \in SqlStates}

\* One call, over both tables and every default status.
Init == InitCalls({1}, TableErrs, Statuses)

Spec == Init /\ [][Next]_vars

ChainLinks ==
    {GenericErr, NilPtr,
     MySQLError(1045, <<"2", "8", "0", "0", "0">>),
     MySQLError(1105, <<"H", "Y", "0", "0", "0">>),
     MySQLError(9999, <<"2", "3", "0", "0", "0">>),
     MySQLError(9999, <<"9", "9", "0", "0", "0">>)}

ChainErrs == UNION {[1..k -> ChainLinks] : k \in 0..MaxDepth}

ChainDefs == {"Internal", "Unknown", "Integrity"}

\* One call, over every chain of wrapped errors up to MaxDepth links.
InitChain == InitCalls({1}, ChainErrs, ChainDefs)

SpecChain == InitChain /\ [][Next]_vars

ConcErrs ==
    {<<>>, <<NilPtr>>,
     <<MySQLError(1045, <<"2", "8", "0", "0", "0">>)>>,
     <<MySQLError(1105, <<"2", "3", "0", "0", "0">>)>>,
     <<GenericErr, MySQLError(9999, <<"2", "3", "0", "0", "0">>)>>}

ConcDefs == {"Internal", "Unknown"}

\* NumCallers calls, interleaved in any order.
InitConc == InitCalls(Procs, ConcErrs, ConcDefs)

SpecConc == InitConc /\ [][Next]_vars

(***************************************************************************)
(* Properties.                                                             *)
(***************************************************************************)
\* The chain holds a link of type *mysql.MySQLError.
IsVendorChain(e) == \E i \in 1..Len(e) : e[i].kind # "generic"

\* The outermost such link.
Outermost(e) ==
    e[CHOOSE i \in 1..Len(e) :
        /\ e[i].kind # "generic"
        /\ \A j \in 1..(i - 1) : e[j].kind = "generic"]

Returned(p) == pc[p] = "done"

\* The call of p returned and classified a vendor error.
Classified(p) == Returned(p) /\ IsVendorChain(err[p])

Prefix(s) == SubSeq(s, 1, 2)

S23000 == <<"2", "3", "0", "0", "0">>
S28000 == <<"2", "8", "0", "0", "0">>
S99000 == <<"9", "9", "0", "0", "0">>

\* C1: for every code of the vendor-code table, every SQLSTATE and every
\* default status, the returned Status is the category the table documents
\* for the code.
VendorCodePrecedence ==
    \A p \in Procs :
        (Classified(p) /\ Outermost(err[p]).Number \in DocVendorCodes)
            => result[p][1].Status = DocVendorCategory(Outermost(err[p]).Number)

\* C2: a vendor error whose code is outside the vendor-code table and whose
\* SQLSTATE prefix is in the fallback table returns the fallback table's
\* category for the prefix, whatever the default status.
SqlStateFallback ==
    \A p \in Procs :
        (/\ Classified(p)
         /\ Outermost(err[p]).Number \notin DocVendorCodes
         /\ Prefix(Outermost(err[p]).SQLState) \in DocPrefixes)
            => result[p][1].Status = DocPrefixCategory(Prefix(Outermost(err[p]).SQLState))

SqlStateFallbackWitness ==
    /\ Returned(1)
    /\ err[1] = <<MySQLError(9999, S23000)>>
    /\ defaultStatus[1] = "Internal"
    /\ result[1] = <<[Status |-> "Integrity", VendorCode |-> 9999, SqlState |-> S23000]>>

\* C3: a vendor error whose code is outside the vendor-code table and whose
\* SQLSTATE prefix is outside the fallback table (or whose SQLSTATE has fewer
\* than 2 characters) returns the default status unchanged, with the error's
\* code and SQLSTATE.
NoMatchDefault ==
    \A p \in Procs :
        (/\ Classified(p)
         /\ Outermost(err[p]).Number \notin DocVendorCodes
         /\ \/ Len(Outermost(err[p]).SQLState) < 2
            \/ Prefix(Outermost(err[p]).SQLState) \notin DocPrefixes)
            => result[p] = <<[Status |-> defaultStatus[p],
                              VendorCode |-> Outermost(err[p]).Number,
                              SqlState |-> Outermost(err[p]).SQLState]>>

NoMatchDefaultWitness ==
    /\ Returned(1)
    /\ err[1] = <<MySQLError(9999, S99000)>>
    /\ defaultStatus[1] = "Internal"
    /\ result[1] = <<[Status |-> "Internal", VendorCode |-> 9999, SqlState |-> S99000]>>

\* C4: an error that neither is nor wraps a vendor error, the nil error
\* included, returns the default status with VendorCode 0 and an empty
\* SqlState, and the call reaches neither switch.
NonVendorInput ==
    \A p \in Procs :
        ~IsVendorChain(err[p])
            => /\ pc[p] \in {"none", "init", "as", "return", "done"}
               /\ Returned(p)
                    => result[p] = <<[Status |-> defaultStatus[p],
                                      VendorCode |-> 0, SqlState |-> <<>>]>>

NonVendorInputWitness ==
    /\ Returned(1)
    /\ err[1] = <<GenericErr>>
    /\ defaultStatus[1] = "Timeout"
    /\ result[1][1].Status = "Timeout"

\* C5: every result carries the code and the SQLSTATE of the extracted vendor
\* error verbatim, whichever rule set the Status; SqlState is non-empty
\* exactly when a vendor error was extracted and VendorCode is 0 when none was.
DiagnosticFields ==
    \A p \in Procs :
        Returned(p)
            => IF IsVendorChain(err[p])
               THEN /\ result[p][1].VendorCode = Outermost(err[p]).Number
                    /\ result[p][1].SqlState = Outermost(err[p]).SQLState
                    /\ result[p][1].SqlState # <<>>
               ELSE /\ result[p][1].VendorCode = 0
                    /\ result[p][1].SqlState = <<>>

DiagnosticFieldsWitness ==
    /\ Returned(1)
    /\ err[1] = <<MySQLError(65535, S23000)>>
    /\ result[1][1].VendorCode = 65535
    /\ result[1][1].SqlState = S23000
    /\ result[1][1].Status = "Integrity"

\* C6: no call of InspectError panics, whatever the error value.
Totality == \A p \in Procs : pc[p] # "panic"

\* C7: interleaved calls each return what they return when run alone, no step
\* of one call changes the locals or the result of another, and a returned
\* ErrorInfo never changes afterwards.
Stateless ==
    /\ [](\A p \in Procs :
            /\ Returned(p) => result[p] = InspectError(err[p], defaultStatus[p])
            /\ pc[p] = "panic" => InspectError(err[p], defaultStatus[p]) = <<>>)
    /\ [][\A p \in Procs :
            /\ Returned(p) => (Returned(p)' /\ result'[p] = result[p])
            /\ pc'[p] = pc[p]
                 => /\ info'[p] = info[p]
                    /\ mysqlErr'[p] = mysqlErr[p]
                    /\ result'[p] = result[p]
                    /\ err'[p] = err[p]
                    /\ defaultStatus'[p] = defaultStatus[p]]_vars

\* One call has returned while another, with another input, is between the
\* two switches.
StatelessWitness ==
    /\ Returned(1)
    /\ pc[2] = "guard"
    /\ err[1] # err[2]
    /\ result[1][1].Status # info[2].Status

\* C8: between the two switches, Status equals the default status exactly
\* when no vendor-code rule matched, so the prefix switch is entered only
\* for a code outside the vendor-code table.
FallbackGuardEquivalence ==
    \A p \in Procs :
        /\ pc[p] = "guard"
             => (info[p].Status = defaultStatus[p]
                    <=> mysqlErr[p].Number \notin DocVendorCodes)
        /\ pc[p] = "prefix" => mysqlErr[p].Number \notin DocVendorCodes

\* C9: a call on a chain of wrapped errors returns what a call on the
\* outermost vendor error of the chain returns.
WrappedErrors ==
    \A p \in Procs :
        Classified(p)
            => result[p] = InspectError(<<Outermost(err[p])>>, defaultStatus[p])

\* Two generic wrappers around two different vendor errors.
WrappedErrorsWitness ==
    /\ Returned(1)
    /\ Len(err[1]) >= 3
    /\ err[1][1].kind = "generic"
    /\ \E i, j \in 1..Len(err[1]) :
          /\ i < j
          /\ err[1][i].kind = "mysql"
          /\ err[1][j].kind = "mysql"
          /\ err[1][i].Number # err[1][j].Number
          /\ Outermost(err[1]) = err[1][i]
          /\ result[1][1].VendorCode = err[1][i].Number

\* The call of p returned for a code of the vendor-code table whose
\* documented category is not the default status.
GuardedCase(p) ==
    /\ Classified(p)
    /\ Outermost(err[p]).Number \in DocVendorCodes
    /\ defaultStatus[p] # DocVendorCategory(Outermost(err[p]).Number)

\* C10 as stated: a code of the vendor-code table returns its documented
\* category whenever the default status is another category, the table
\* being the listed codes, 29 of them.
GuardedPrecedence29 ==
    \A p \in Procs :
        GuardedCase(p)
            => /\ result[p][1].Status = DocVendorCategory(Outermost(err[p]).Number)
               /\ VendorCodes = DocVendorCodes
               /\ Cardinality(VendorCodes) = 29

\* C10 amended: a code of the vendor-code table returns its documented
\* category whenever the default status is another category, the table
\* being the listed codes, 27 of them.
GuardedPrecedence27 ==
    \A p \in Procs :
        GuardedCase(p)
            => /\ result[p][1].Status = DocVendorCategory(Outermost(err[p]).Number)
               /\ VendorCodes = DocVendorCodes
               /\ Cardinality(VendorCodes) = 27

GuardedPrecedenceWitness ==
    /\ Returned(1)
    /\ err[1] = <<MySQLError(1045, S28000)>>
    /\ defaultStatus[1] = "Internal"
    /\ result[1] = <<[Status |-> "Unauthenticated", VendorCode |-> 1045, SqlState |-> S28000]>>

====
